---- MODULE Spec2Model ----
(***************************************************************************)
(* Client-side session lifecycle of shopstore-frontend: the token storage  *)
(* over localStorage, the Redux auth slice, the Apollo auth/error links    *)
(* and the four auth thunks (initializeAuth, loginUser, registerUser,      *)
(* logoutUser), plus the secondary mutations issued through useMutation.   *)
(*                                                                         *)
(* JavaScript runs the synchronous part of a thunk, and the continuation   *)
(* that follows an awaited Apollo call, to completion; the only suspension *)
(* points are the awaited remote calls.  Each such run is one action here. *)
(* The error link runs on the response inside the link chain, before the   *)
(* promise the thunk awaits settles, so it is the first part of the action *)
(* that settles a call.                                                    *)
(*                                                                         *)
(* Spec is the application: the mount effect, the Login and Register       *)
(* forms with their checks, logout, the secondary flows and the settling   *)
(* of every call; SpecLive is Spec with the assumption that every call    *)
(* sent settles.  SpecTokenStorage applies the functions of                *)
(* tokenStorage.ts, isTokenExpired among them, to arbitrary arguments.     *)
(***************************************************************************)
EXTENDS Naturals, FiniteSets, Sequences, Bags, TLC

\* ------------------------------------------------------------------ bounds
\* Remote calls issued in one run of the model.
MaxCalls == 2

\* ------------------------------------------------------------------ values
\* JavaScript null (storage miss, empty slice field).
NULL == "null"

\* Accounts known to the server and the access tokens it issues for them.
Users == {"alice", "bob"}
Tokens == {"ta", "tb"}
Owner(t) == IF t = "ta" THEN "alice" ELSE "bob"
TokenOf(u) == IF u = "alice" THEN "ta" ELSE "tb"

\* enum AuthStatus
IDLE == "IDLE"
LOADING == "LOADING"
AUTHENTICATED == "AUTHENTICATED"
UNAUTHENTICATED == "UNAUTHENTICATED"
ERROR == "ERROR"
AuthStatus == {IDLE, LOADING, AUTHENTICATED, UNAUTHENTICATED, ERROR}

\* enum AuthErrorType
INVALID_CREDENTIALS == "INVALID_CREDENTIALS"
NETWORK_ERROR == "NETWORK_ERROR"
UNKNOWN == "UNKNOWN"

\* enum GraphQLErrorCode
BAD_USER_INPUT == "BAD_USER_INPUT"
FORBIDDEN == "FORBIDDEN"
INTERNAL_SERVER_ERROR == "INTERNAL_SERVER_ERROR"
GraphQLErrorCode == {UNAUTHENTICATED, FORBIDDEN, BAD_USER_INPUT, INTERNAL_SERVER_ERROR}

\* enum StorageKey
StorageKey == {"ACCESS_TOKEN", "REFRESH_TOKEN", "USER_DATA"}

\* AuthState.error = null, as a record so that it compares with AuthError records.
NoError == [type |-> NULL, message |-> NULL]

VARIABLES
    localStorage,   \* StorageKey -> string | null
    auth,           \* the Redux auth slice: user, accessToken, refreshToken, status, error
    inflight,       \* bag of the remote calls sent and not yet settled
    calls,          \* number of remote calls sent so far
    initRuns,       \* how often the App mount effect has dispatched initializeAuth
    registered,     \* accounts whose register call the server has accepted
    loggedOut,      \* whether a logoutUser has run to its end
    last,           \* the step taken last: its name, its call, the response handled
                    \* and the session as it was before the step
    form            \* the fields of the Login or Register form submitted by that step

vars == <<localStorage, auth, inflight, calls, initRuns, registered, loggedOut, last, form>>

\* ------------------------------------------------- utilities/tokenStorage.ts
\* As saveTokens, but only the access token is written.
saveTokensAccessOnly(ls, accessToken, refreshToken) ==
    [ls EXCEPT !["ACCESS_TOKEN"] = accessToken]

saveTokens(ls, accessToken, refreshToken) ==
    [ls EXCEPT !["ACCESS_TOKEN"] = accessToken, !["REFRESH_TOKEN"] = refreshToken]

getAccessToken(ls) == ls["ACCESS_TOKEN"]

getRefreshToken(ls) == ls["REFRESH_TOKEN"]

clearTokens(ls) ==
    [ls EXCEPT !["ACCESS_TOKEN"] = NULL, !["REFRESH_TOKEN"] = NULL, !["USER_DATA"] = NULL]

\* A JavaScript string used as a condition: null and '' are falsy.
Truthy(s) == s # NULL /\ s # ""

\* isTokenExpired.  A token string is a sequence of pieces: the '.' character
\* (Dot) or a run of other characters.  A run is described by what atob makes
\* of it (base64 or not, and the decoded text) and the decoded text by what
\* JSON.parse makes of it (JSON or not, and the value).  JavaScript values are
\* records with a `type`; Threw stands for a thrown exception.
Dot == [type |-> "dot"]
Threw == [type |-> "exception"]
Undefined == [type |-> "undefined"]
JsNull == [type |-> "null"]
NaN == [type |-> "number", nan |-> TRUE, value |-> 0]
Num(n) == [type |-> "number", nan |-> FALSE, value |-> n]
JsString(s) == [type |-> "string", value |-> s]
JsObject(exp) == [type |-> "object", exp |-> exp]
NotJson == [type |-> "text", json |-> FALSE, value |-> Undefined]
Json(v) == [type |-> "text", json |-> TRUE, value |-> v]
NotBase64 == [type |-> "run", base64 |-> FALSE, text |-> NotJson]
Encoded(text) == [type |-> "run", base64 |-> TRUE, text |-> text]

\* payload.exp * 1000
MillisPerSecond == 1000

\* token.split('.'): the runs between the dots; '' gives one empty segment.
RECURSIVE splitFrom(_, _, _)
splitFrom(s, segment, segments) ==
    IF s = <<>> THEN Append(segments, segment)
    ELSE IF Head(s) = Dot THEN splitFrom(Tail(s), <<>>, Append(segments, segment))
    ELSE splitFrom(Tail(s), Append(segment, Head(s)), segments)

split(s) == splitFrom(s, <<>>, <<>>)

\* atob(segments[i]), i counted from 0: a missing element is undefined, which
\* atob reads as the nine characters 'undefined', not base64; '' decodes to ''.
atob(segments, i) ==
    IF Len(segments) < i + 1 THEN Threw
    ELSE LET segment == segments[i + 1] IN
         IF segment = <<>> THEN NotJson
         ELSE IF Len(segment) = 1 /\ segment[1].base64 THEN segment[1].text
         ELSE Threw

\* JSON.parse(text)
JSONparse(text) == IF text.json THEN text.value ELSE Threw

\* payload.exp: a TypeError on null, undefined on a primitive.
expOf(payload) ==
    CASE payload.type = "null" -> Threw
      [] payload.type = "object" -> payload.exp
      [] OTHER -> Undefined

\* ToNumber, as the operator * applies it to its operand.
ToNumber(v) ==
    CASE v.type = "number" -> v
      [] v.type = "null" -> Num(0)
      [] OTHER -> NaN

Times(x, k) == IF ToNumber(x).nan THEN NaN ELSE Num(ToNumber(x).value * k)

\* now >= x for a number now: false whenever x is NaN.
GreaterOrEqual(now, x) == ~x.nan /\ now >= x.value

isTokenExpired(token, now) ==
    LET text == atob(split(token), 1)
        payload == IF text = Threw THEN Threw ELSE JSONparse(text)
        exp == IF payload = Threw THEN Threw ELSE expOf(payload)
    IN  IF exp = Threw
            THEN TRUE
            ELSE GreaterOrEqual(now, Times(exp, MillisPerSecond))

\* ---------------------------------------------------- redux/slices/authSlice.ts
initialState ==
    [user |-> NULL, accessToken |-> NULL, refreshToken |-> NULL,
     status |-> IDLE, error |-> NoError]

setUser(state, payload) ==
    [state EXCEPT !.user = payload, !.status = AUTHENTICATED]

setTokens(state, accessToken, refreshToken) ==
    [state EXCEPT !.accessToken = accessToken, !.refreshToken = refreshToken]

\* As clearAuth, but status is left as it is.
clearAuthKeepsStatus(state) ==
    [state EXCEPT !.user = NULL, !.accessToken = NULL, !.refreshToken = NULL,
                  !.error = NoError]

\* As clearAuth, but the slice is reset to initialState.
clearAuthResetsToInitial(state) == initialState

clearAuth(state) ==
    [state EXCEPT !.user = NULL, !.accessToken = NULL, !.refreshToken = NULL,
                  !.status = UNAUTHENTICATED, !.error = NoError]

\* As setError, but only status is set.
setErrorStatusOnly(state, type, message) == [state EXCEPT !.status = ERROR]

setError(state, type, message) ==
    [state EXCEPT !.error = [type |-> type, message |-> message], !.status = ERROR]

setStatus(state, payload) == [state EXCEPT !.status = payload]

selectIsAuthenticated(state) ==
    state.status = AUTHENTICATED /\ state.user # NULL

\* ------------------------------------------------------------ apollo/authLink
\* The authorization header of an outbound request; NoHeader when the
\* headers carry no authorization key.  No caller passes headers of its own.
NoHeader == "no-authorization-header"
Bearer(token) == "Bearer " \o token

authLinkEmptyCredential(ls) ==
    IF Truthy(getAccessToken(ls)) THEN Bearer(getAccessToken(ls)) ELSE ""

authLink(ls) ==
    IF Truthy(getAccessToken(ls)) THEN Bearer(getAccessToken(ls)) ELSE NoHeader

\* ----------------------------------------------------------- apollo/errorLink
isAuthErrorUnauthenticatedOnly(codes) ==
    \E code \in codes : code = UNAUTHENTICATED

isAuthError(codes) ==
    \E code \in codes : code = UNAUTHENTICATED \/ code = FORBIDDEN

\* The session as the handlers see it: the storage and the slice together.
World(ls, state) == [ls |-> ls, auth |-> state]

\* As teardown, but only the storage is cleared.
teardownStorageOnly(w) == World(clearTokens(w.ls), w.auth)

teardown(w) == World(clearTokens(w.ls), clearAuth(w.auth))

\* ------------------------------------------------------ the remote API seen
\* through apolloClient (apollo/client.ts: link chain errorLink, authLink,
\* httpLink; no defaultOptions, so no errorPolicy is configured).
\*
\* A settled call is described by what the link chain saw (kind) and by how
\* the promise returned by mutate()/query() settled (shape):
\*   kind "data"           the server answered without errors;
\*   kind "graphQLErrors"  the server answered with structured errors, whose
\*                         extensions.code values are `codes`;
\*   kind "networkError"   no usable answer: transport failure, or a body that
\*                         cannot be parsed (ServerParseError).
\* A response with GraphQL errors reaches the caller either as a resolved
\* result carrying `errors` (the branch the thunks test for) or as a rejection
\* (what Apollo does under its default errorPolicy); both are kept.
Rejected == "rejected"
Resolved == "resolved"

\* Error code sets a response may carry; the two-element sets exercise `some`.
CodeSets ==
    {{UNAUTHENTICATED}, {FORBIDDEN}, {BAD_USER_INPUT},
     {INTERNAL_SERVER_ERROR, FORBIDDEN}, {INTERNAL_SERVER_ERROR, BAD_USER_INPUT}}

ServerMessage == "Invalid credentials"
NetworkMessages == {"Failed to fetch", ""}

Operations ==
    {"login", "register", "logout", "me",
     "forgotPassword", "resetPassword", "verifyEmail", "resendVerificationEmail"}
SecondaryFlows == {"forgotPassword", "resetPassword", "verifyEmail", "resendVerificationEmail"}

NoCall == [op |-> NULL, hdr |-> NoHeader, user |-> NULL]
NoResponse ==
    [kind |-> NULL, shape |-> NULL, codes |-> {}, user |-> NULL, accessToken |-> NULL,
     message |-> ""]

DataResponse(user, accessToken) ==
    [kind |-> "data", shape |-> Resolved, codes |-> {}, user |-> user,
     accessToken |-> accessToken, message |-> ""]

ErrorResponses ==
    {[kind |-> "graphQLErrors", shape |-> sh, codes |-> cs, user |-> NULL,
      accessToken |-> NULL, message |-> ServerMessage] :
        sh \in {Resolved, Rejected}, cs \in CodeSets}
    \cup
    {[kind |-> "networkError", shape |-> Rejected, codes |-> {}, user |-> NULL,
      accessToken |-> NULL, message |-> m] : m \in NetworkMessages}

\* The token a request carried, as the server reads it from the header.
TokenIn(hdr) == CHOOSE t \in Tokens : Bearer(t) = hdr
CarriesToken(hdr) == \E t \in Tokens : Bearer(t) = hdr

\* What the server can answer to call c.  login and register answer with the
\* account of the submitted credentials and a token issued for it; me is a
\* protected resolver (schema me: User!) and answers with the owner of the
\* presented token.
SuccessResponses(c) ==
    CASE c.op \in {"login", "register"} -> {DataResponse(c.user, TokenOf(c.user))}
      [] c.op = "me" ->
            IF CarriesToken(c.hdr)
                THEN {DataResponse(Owner(TokenIn(c.hdr)), NULL)}
                ELSE {}
      [] OTHER -> {DataResponse(NULL, NULL)}

Responses(c) == SuccessResponses(c) \cup ErrorResponses

\* ----------------------------------------------------------- apollo/errorLink
\* As errorLink, but a network error ends the session as well.
errorLinkTearsDownOnNetworkError(w, r) ==
    IF (r.kind = "graphQLErrors" /\ isAuthError(r.codes)) \/ r.kind = "networkError"
        THEN teardown(w)
        ELSE w

errorLink(w, r) ==
    IF r.kind = "graphQLErrors" /\ isAuthError(r.codes)
        THEN teardown(w)
        ELSE w

\* ------------------------------------------------- redux/thunks/authThunks.ts
\* error.message || '<default>'
MessageOr(message, default) == IF message # "" THEN message ELSE default

\* loginUser after `await apolloClient.mutate(...)` has settled with r.
loginUserSettledClearsOnFailure(w, r) ==
    IF r.shape = Rejected
        THEN World(clearTokens(w.ls),
                   setError(clearAuth(w.auth), NETWORK_ERROR, MessageOr(r.message, "Login failed")))
        ELSE IF r.codes # {}
            THEN World(clearTokens(w.ls),
                       setError(clearAuth(w.auth), INVALID_CREDENTIALS, r.message))
            ELSE World(saveTokens(w.ls, r.accessToken, ""),
                       setUser(setTokens(w.auth, r.accessToken, ""), r.user))

loginUserSettledStoresRefresh(w, r) ==
    IF r.shape = Rejected
        THEN World(w.ls, setError(w.auth, NETWORK_ERROR, MessageOr(r.message, "Login failed")))
        ELSE IF r.codes # {}
            THEN World(w.ls, setError(w.auth, INVALID_CREDENTIALS, r.message))
            ELSE World(saveTokens(w.ls, r.accessToken, r.accessToken),
                       setUser(setTokens(w.auth, r.accessToken, r.accessToken), r.user))

\* As loginUserSettled, but a completion that finds status no longer LOADING
\* is discarded.
loginUserSettledDropsStale(w, r) ==
    IF w.auth.status # LOADING
        THEN w
    ELSE IF r.shape = Rejected
        THEN World(w.ls, setError(w.auth, NETWORK_ERROR, MessageOr(r.message, "Login failed")))
        ELSE IF r.codes # {}
            THEN World(w.ls, setError(w.auth, INVALID_CREDENTIALS, r.message))
            ELSE World(saveTokens(w.ls, r.accessToken, ""),
                       setUser(setTokens(w.auth, r.accessToken, ""), r.user))

\* As loginUserSettled, but a success is dropped when a user is already set.
loginUserSettledFirstWins(w, r) ==
    IF r.shape = Rejected
        THEN World(w.ls, setError(w.auth, NETWORK_ERROR, MessageOr(r.message, "Login failed")))
        ELSE IF r.codes # {}
            THEN World(w.ls, setError(w.auth, INVALID_CREDENTIALS, r.message))
            ELSE IF w.auth.user # NULL
                THEN w
                ELSE World(saveTokens(w.ls, r.accessToken, ""),
                           setUser(setTokens(w.auth, r.accessToken, ""), r.user))

\* As loginUserSettled, but the catch records the UNKNOWN error type.
loginUserSettledCatchUnknown(w, r) ==
    IF r.shape = Rejected
        THEN World(w.ls, setError(w.auth, UNKNOWN, MessageOr(r.message, "Login failed")))
        ELSE IF r.codes # {}
            THEN World(w.ls, setError(w.auth, INVALID_CREDENTIALS, r.message))
            ELSE World(saveTokens(w.ls, r.accessToken, ""),
                       setUser(setTokens(w.auth, r.accessToken, ""), r.user))

loginUserSettled(w, r) ==
    IF r.shape = Rejected
        THEN World(w.ls, setError(w.auth, NETWORK_ERROR, MessageOr(r.message, "Login failed")))
        ELSE IF r.codes # {}
            THEN World(w.ls, setError(w.auth, INVALID_CREDENTIALS, r.message))
            ELSE World(saveTokens(w.ls, r.accessToken, ""),
                       setUser(setTokens(w.auth, r.accessToken, ""), r.user))

\* registerUser after its mutate has settled with r.
registerUserSettledLogsIn(w, r) ==
    IF r.shape = Rejected
        THEN World(w.ls,
                   setError(w.auth, NETWORK_ERROR, MessageOr(r.message, "Registration failed")))
        ELSE IF r.codes # {}
            THEN World(w.ls, setError(w.auth, INVALID_CREDENTIALS, r.message))
            ELSE World(saveTokens(w.ls, r.accessToken, ""),
                       setUser(setTokens(w.auth, r.accessToken, ""), r.user))

\* As registerUserSettled, but a success dispatches nothing.
registerUserSettledSilentSuccess(w, r) ==
    IF r.shape = Rejected
        THEN World(w.ls,
                   setError(w.auth, NETWORK_ERROR, MessageOr(r.message, "Registration failed")))
        ELSE IF r.codes # {}
            THEN World(w.ls, setError(w.auth, INVALID_CREDENTIALS, r.message))
            ELSE w

registerUserSettled(w, r) ==
    IF r.shape = Rejected
        THEN World(w.ls,
                   setError(w.auth, NETWORK_ERROR, MessageOr(r.message, "Registration failed")))
        ELSE IF r.codes # {}
            THEN World(w.ls, setError(w.auth, INVALID_CREDENTIALS, r.message))
            ELSE World(w.ls, setStatus(w.auth, UNAUTHENTICATED))

\* logoutUser after its mutate has settled: the catch only logs, the cleanup
\* follows the try statement.
logoutUserSettledOnlyOnSuccess(w, r) ==
    IF r.shape = Rejected THEN w ELSE teardown(w)

logoutUserSettled(w, r) == teardown(w)

\* initializeAuth up to its await: the storage read, the branch on the
\* token and the optimistic setTokens.  A remote call follows iff a token was
\* found (initializeAuthCalls).
initializeAuthAlwaysCalls(ls) == TRUE

initializeAuthCalls(ls) == Truthy(getAccessToken(ls))

initializeAuthStartSkipsTokens(w) ==
    IF ~ initializeAuthCalls(w.ls)
        THEN World(w.ls, setStatus(w.auth, UNAUTHENTICATED))
        ELSE w

initializeAuthStart(w) ==
    IF ~ initializeAuthCalls(w.ls)
        THEN World(w.ls, setStatus(w.auth, UNAUTHENTICATED))
        ELSE World(w.ls, setTokens(w.auth, getAccessToken(w.ls), ""))

\* initializeAuth after `await apolloClient.query(...)` has settled with r.  A
\* result resolved with errors has data = null (me is non-null in the schema),
\* so reading data.me throws inside the try and lands in the catch.
initializeAuthSettledTrustsToken(w, r) ==
    IF r.shape = Rejected \/ r.kind # "data"
        THEN World(w.ls, setStatus(w.auth, AUTHENTICATED))
        ELSE World(w.ls, setUser(w.auth, r.user))

initializeAuthSettled(w, r) ==
    IF r.shape = Rejected \/ r.kind # "data"
        THEN teardown(w)
        ELSE World(w.ls, setUser(w.auth, r.user))

\* The secondary flows (ForgotPassword, ResetPassword, VerifyEmail, and the
\* resend button of Login) await a useMutation call and touch component state
\* only.
\* As secondarySettled, but a failure is recorded in the slice as the thunks do.
secondarySettledRecordsError(w, r) ==
    IF r.kind # "data"
        THEN World(w.ls, setError(w.auth, UNKNOWN, r.message))
        ELSE w

secondarySettled(w, r) == w

\* The continuation that runs when call c settles.
Continuation(c, w, r) ==
    CASE c.op = "login" -> loginUserSettled(w, r)
      [] c.op = "register" -> registerUserSettled(w, r)
      [] c.op = "logout" -> logoutUserSettled(w, r)
      [] c.op = "me" -> initializeAuthSettled(w, r)
      [] OTHER -> secondarySettled(w, r)

\* A response passes the error link, then settles the caller's promise.
Handle(c, w, r) == Continuation(c, errorLink(w, r), r)

\* loginUser and registerUser up to their await: dispatch(setStatus(LOADING)).
\* As loginUserStart, without the dispatch.
loginUserStartKeepsStatus(w) == w

loginUserStart(w) == World(w.ls, setStatus(w.auth, LOADING))

registerUserStart(w) == World(w.ls, setStatus(w.auth, LOADING))

\* A request leaving through the link chain: authLink reads the storage when
\* the request is sent.
Request(ls, op, user) ==
    [op |-> op, hdr |-> authLink(ls), user |-> user]

\* ------------------------------------------- components/auth/Login, Register
\* The form fields are strings; a password is kept as its sequence of
\* characters, for its length.
Emails == {""} \cup Users
Passwords == {<<>>, <<"s", "e", "c", "r", "t">>, <<"s", "e", "c", "r", "e", "t">>}
Names == {"", "Ann"}

\* password.length < 6
MinPasswordLength == 6

NoForm == [page |-> NULL, email |-> NULL, password |-> <<>>, name |-> NULL]

\* '' when the fields pass, else the message handed to setValidationError.
loginValidationError(email, password) ==
    IF ~Truthy(email) \/ Len(password) = 0
        THEN "Email and password are required"
        ELSE ""

\* As registerValidationError, without the check of the password's length.
registerValidationErrorAnyLength(email, password, name) ==
    IF ~Truthy(email) \/ Len(password) = 0 \/ ~Truthy(name)
        THEN "All fields are required"
        ELSE ""

registerValidationError(email, password, name) ==
    IF ~Truthy(email) \/ Len(password) = 0 \/ ~Truthy(name)
        THEN "All fields are required"
    ELSE IF Len(password) < MinPasswordLength
        THEN "Password must be at least 6 characters"
        ELSE ""

\* ------------------------------------------------------------------ the state
\* localStorage outlives the page: at start it holds what an earlier run of
\* the application left there (tokens saved by a login, or nothing after a
\* logout), and the reserved USER_DATA slot may hold an old value.
InitialStorages ==
    {[k \in StorageKey |->
        CASE k = "ACCESS_TOKEN" -> a
          [] k = "REFRESH_TOKEN" -> (IF a = NULL THEN NULL ELSE "")
          [] OTHER -> d] :
        a \in Tokens \cup {NULL}, d \in {NULL, "legacy-user-data"}}

\* The state as it is when a step starts (recorded in last.pre).
Before == [ls |-> localStorage, auth |-> auth, calls |-> calls, inflight |-> inflight]

Init ==
    /\ localStorage \in InitialStorages
    /\ auth = initialState
    /\ inflight = EmptyBag
    /\ calls = 0
    /\ initRuns = 0
    /\ registered = {}
    /\ loggedOut = FALSE
    /\ last = [step |-> "start", call |-> NoCall, resp |-> NoResponse, pre |-> Before]
    /\ form = NoForm

\* The synchronous part of an operation: the session moves from w to w2 and,
\* when `sends`, one request leaves.
Begin(step, w2, sends, op, user) ==
    LET req == Request(w2.ls, op, user) IN
    /\ localStorage' = w2.ls
    /\ auth' = w2.auth
    /\ inflight' = IF sends THEN inflight (+) SetToBag({req}) ELSE inflight
    /\ calls' = IF sends THEN calls + 1 ELSE calls
    /\ last' = [step |-> step, call |-> IF sends THEN req ELSE NoCall,
                resp |-> NoResponse, pre |-> Before]

\* App's mount effect dispatches initializeAuth before anything else can run;
\* under React.StrictMode (main.tsx) the effect runs a second time at once.
InitializeAuth ==
    /\ initRuns = 0 \/ (initRuns = 1 /\ last.step = "initializeAuth")
    /\ Begin("initializeAuth", initializeAuthStart(World(localStorage, auth)),
             initializeAuthCalls(localStorage), "me", NULL)
    /\ initRuns' = initRuns + 1
    /\ UNCHANGED <<registered, loggedOut>>

LoginUser(u) ==
    /\ initRuns >= 1
    /\ calls < MaxCalls
    /\ Begin("loginUser", loginUserStart(World(localStorage, auth)), TRUE, "login", u)
    /\ UNCHANGED <<initRuns, registered, loggedOut>>

RegisterUser(u) ==
    /\ initRuns >= 1
    /\ calls < MaxCalls
    /\ Begin("registerUser", registerUserStart(World(localStorage, auth)), TRUE, "register", u)
    /\ UNCHANGED <<initRuns, registered, loggedOut>>

LogoutUser ==
    /\ initRuns >= 1
    /\ calls < MaxCalls
    /\ Begin("logoutUser", World(localStorage, auth), TRUE, "logout", NULL)
    /\ UNCHANGED <<initRuns, registered, loggedOut>>

SecondaryFlow(op) ==
    /\ initRuns >= 1
    /\ calls < MaxCalls
    /\ Begin("secondaryFlow", World(localStorage, auth), TRUE, op, NULL)
    /\ UNCHANGED <<initRuns, registered, loggedOut>>

\* Call c settles with response r: the error link, then the continuation of
\* the operation that awaited it.
Settle(c, r) ==
    LET w2 == Handle(c, World(localStorage, auth), r) IN
    /\ localStorage' = w2.ls
    /\ auth' = w2.auth
    /\ inflight' = inflight (-) SetToBag({c})
    /\ registered' = IF c.op = "register" /\ r.kind = "data"
                        THEN registered \cup {c.user}
                        ELSE registered
    /\ loggedOut' = (loggedOut \/ c.op = "logout")
    /\ last' = [step |-> "settled", call |-> c, resp |-> r, pre |-> Before]
    /\ UNCHANGED <<calls, initRuns>>

LoginSettled ==
    \E c \in BagToSet(inflight) : c.op = "login" /\ \E r \in Responses(c) : Settle(c, r)

RegisterSettled ==
    \E c \in BagToSet(inflight) : c.op = "register" /\ \E r \in Responses(c) : Settle(c, r)

LogoutSettled ==
    \E c \in BagToSet(inflight) : c.op = "logout" /\ \E r \in Responses(c) : Settle(c, r)

InitializeAuthSettled ==
    \E c \in BagToSet(inflight) : c.op = "me" /\ \E r \in Responses(c) : Settle(c, r)

SecondarySettled ==
    \E c \in BagToSet(inflight) : c.op \in SecondaryFlows /\ \E r \in Responses(c) : Settle(c, r)

\* A submission stopped by the form's own checks: setValidationError and
\* return, nothing is dispatched.
ValidationFailed(step) ==
    /\ Begin(step, World(localStorage, auth), FALSE, NULL, NULL)
    /\ UNCHANGED <<initRuns, registered, loggedOut>>

\* Login.handleSubmit: the checks, then dispatch(loginUser({email, password})).
LoginHandleSubmit(email, password) ==
    /\ initRuns >= 1
    /\ form' = [page |-> "login", email |-> email, password |-> password, name |-> NULL]
    /\ IF loginValidationError(email, password) # ""
          THEN ValidationFailed("loginSubmit")
          ELSE LoginUser(email)

\* Register.handleSubmit: the checks, then dispatch(registerUser({...})).
RegisterHandleSubmit(email, password, name) ==
    /\ initRuns >= 1
    /\ form' = [page |-> "register", email |-> email, password |-> password, name |-> name]
    /\ IF registerValidationError(email, password, name) # ""
          THEN ValidationFailed("registerSubmit")
          ELSE RegisterUser(email)

\* A step that is not a form submission.
NoSubmit == form' = NoForm

Next ==
    \/ InitializeAuth /\ NoSubmit
    \/ \E email \in Emails, password \in Passwords : LoginHandleSubmit(email, password)
    \/ \E email \in Emails, password \in Passwords, name \in Names :
          RegisterHandleSubmit(email, password, name)
    \/ LogoutUser /\ NoSubmit
    \/ \E op \in SecondaryFlows : SecondaryFlow(op) /\ NoSubmit
    \/ LoginSettled /\ NoSubmit
    \/ RegisterSettled /\ NoSubmit
    \/ LogoutSettled /\ NoSubmit
    \/ InitializeAuthSettled /\ NoSubmit
    \/ SecondarySettled /\ NoSubmit

Spec == Init /\ [][Next]_vars

\* Every remote call settles in the end: the server answers, or the fetch
\* fails.
SettleSome ==
    /\ \/ LoginSettled
       \/ RegisterSettled
       \/ LogoutSettled
       \/ InitializeAuthSettled
       \/ SecondarySettled
    /\ NoSubmit

SpecLive == Spec /\ WF_vars(SettleSome)

\* ------------------------------------------- the token storage on its own
\* The functions of tokenStorage.ts applied to arbitrary arguments, from an
\* arbitrary storage: saveTokens and clearTokens act on localStorage,
\* isTokenExpired only computes (nothing of the application calls it).  `last`
\* records the function applied, its arguments and its result.
SlotValues == {NULL, "", "ta", "tb"}

AnyStorages ==
    {[k \in StorageKey |->
        CASE k = "ACCESS_TOKEN" -> a
          [] k = "REFRESH_TOKEN" -> r
          [] OTHER -> d] :
        a \in SlotValues, r \in SlotValues, d \in {NULL, "legacy-user-data"}}

\* The strings handed to saveTokens.
TokenStrings == {"", "ta", "tb"}

\* The values of an `exp` member, and of a payload that is not an object.
ExpSeconds == 0..3
ExpMembers == {Undefined, JsNull, JsString("soon")} \cup {Num(n) : n \in ExpSeconds}
Payloads == {JsNull, Num(5), JsString("exp")} \cup {JsObject(e) : e \in ExpMembers}

\* The second segment of a token: not base64, base64 of something that is
\* not JSON, or base64 of a JSON value.
PayloadRuns == {NotBase64, Encoded(NotJson)} \cup {Encoded(Json(p)) : p \in Payloads}

Header == Encoded(Json(JsObject(Undefined)))
Signature == NotBase64

\* '', 'h', 'h.', 'h.p' and 'h.p.s'
JwtStrings ==
    {<<>>, <<Header>>, <<Header, Dot>>}
    \cup {<<Header, Dot, p>> : p \in PayloadRuns}
    \cup {<<Header, Dot, p, Dot, Signature>> : p \in PayloadRuns}

\* Date.now(), in milliseconds.
NowValues == {999, 1000, 1001, 2500}

NoArgs == [accessToken |-> NULL, refreshToken |-> NULL, token |-> <<>>, now |-> 0]

Applied(step, args, result) ==
    /\ last' = [step |-> step, args |-> args, result |-> result, pre |-> Before]
    /\ UNCHANGED <<auth, inflight, calls, initRuns, registered, loggedOut, form>>

InitTokenStorage ==
    /\ localStorage \in AnyStorages
    /\ auth = initialState
    /\ inflight = EmptyBag
    /\ calls = 0
    /\ initRuns = 0
    /\ registered = {}
    /\ loggedOut = FALSE
    /\ last = [step |-> "start", args |-> NoArgs, result |-> FALSE, pre |-> Before]
    /\ form = NoForm

SaveTokens(accessToken, refreshToken) ==
    /\ localStorage' = saveTokens(localStorage, accessToken, refreshToken)
    /\ Applied("saveTokens",
               [NoArgs EXCEPT !.accessToken = accessToken, !.refreshToken = refreshToken],
               FALSE)

ClearTokens ==
    /\ localStorage' = clearTokens(localStorage)
    /\ Applied("clearTokens", NoArgs, FALSE)

IsTokenExpired(token, now) ==
    /\ UNCHANGED localStorage
    /\ Applied("isTokenExpired", [NoArgs EXCEPT !.token = token, !.now = now],
               isTokenExpired(token, now))

NextTokenStorage ==
    \/ \E a \in TokenStrings, r \in TokenStrings : SaveTokens(a, r)
    \/ ClearTokens
    \/ \E token \in JwtStrings, now \in NowValues : IsTokenExpired(token, now)

SpecTokenStorage == InitTokenStorage /\ [][NextTokenStorage]_vars

\* ------------------------------------------------ components/ProtectedRoute
\* What the route renders: the spinner, <Navigate to="/login">, or its children.
Pending == "pending"
Redirect == "redirect"
Children == "children"

\* As ProtectedRoute, but with IDLE taken for "not authenticated".
ProtectedRouteIdleRedirects(state) ==
    IF state.status = LOADING THEN Pending
    ELSE IF ~selectIsAuthenticated(state) THEN Redirect
    ELSE Children

ProtectedRoute(state) ==
    IF state.status = IDLE \/ state.status = LOADING THEN Pending
    ELSE IF ~selectIsAuthenticated(state) THEN Redirect
    ELSE Children

\* ------------------------------------------------------------ the properties
Settled(op) == last.step = "settled" /\ last.call.op = op

StorageCleared == \A k \in StorageKey : localStorage[k] = NULL

SessionCleared ==
    auth.user = NULL /\ auth.accessToken = NULL /\ auth.refreshToken = NULL

\* A response with a structured error of code UNAUTHENTICATED or FORBIDDEN.
AuthClass(r) ==
    r.kind = "graphQLErrors" /\ (UNAUTHENTICATED \in r.codes \/ FORBIDDEN \in r.codes)

Failed(r) == r.kind # "data"

\* C1: when logoutUser completes, whether its remote call succeeded or failed,
\* all three storage slots are empty and the slice has user, accessToken,
\* refreshToken and error null and status UNAUTHENTICATED (never ERROR).
C1_LogoutAlwaysCleansUp ==
    Settled("logout") =>
        /\ StorageCleared
        /\ auth = [user |-> NULL, accessToken |-> NULL, refreshToken |-> NULL,
                   status |-> UNAUTHENTICATED, error |-> NoError]

\* A logout whose remote call failed at transport level, from an authenticated
\* session with all three slots in use.
C1_Witness ==
    /\ Settled("logout")
    /\ last.resp.kind = "networkError"
    /\ last.pre.auth.status = AUTHENTICATED
    /\ \A k \in StorageKey : last.pre.ls[k] # NULL

\* C2 as stated: after any call whose response carries an UNAUTHENTICATED or
\* FORBIDDEN error has been handled, the storage is cleared, user and tokens
\* are null and status is UNAUTHENTICATED.
C2_Original ==
    (last.step = "settled" /\ AuthClass(last.resp)) =>
        StorageCleared /\ SessionCleared /\ auth.status = UNAUTHENTICATED

\* C2 as amended: after such a call has been handled the storage is cleared
\* and user and tokens are null; status is UNAUTHENTICATED with no error for
\* logout, fetchCurrentUser and the secondary flows, and ERROR with the error
\* recorded by the thunk for login and register.
C2_AuthErrorTearsDown ==
    (last.step = "settled" /\ AuthClass(last.resp)) =>
        /\ StorageCleared
        /\ SessionCleared
        /\ IF last.call.op \in {"login", "register"}
              THEN /\ auth.status = ERROR
                   /\ auth.error.type \in {INVALID_CREDENTIALS, NETWORK_ERROR}
              ELSE /\ auth.status = UNAUTHENTICATED
                   /\ auth.error = NoError

\* An unrelated endpoint answers FORBIDDEN while the session is authenticated.
C2_Witness ==
    /\ last.step = "settled"
    /\ last.call.op \in SecondaryFlows
    /\ last.resp.codes = {INTERNAL_SERVER_ERROR, FORBIDDEN}
    /\ last.pre.auth.status = AUTHENTICATED
    /\ last.pre.auth.user # NULL
    /\ last.pre.ls["ACCESS_TOKEN"] # NULL

C4_Original ==
    (Settled("login") /\ last.resp.kind = "graphQLErrors") =>
        /\ auth.status = ERROR
        /\ auth.error.type = INVALID_CREDENTIALS
        /\ localStorage = last.pre.ls
        /\ auth.user = last.pre.auth.user

\* C5: a login or register attempt that fails with a credential error (a
\* server rejection that is not UNAUTHENTICATED/FORBIDDEN) or a network error
\* records the error and status ERROR, and neither its start nor its completion
\* logs an existing session out: user, accessToken and the access slot keep
\* the values they had before the step, and a stored token is still attached
\* to outbound requests.
C5_FailedAttemptKeepsSession ==
    /\ last.step \in {"loginUser", "registerUser"} =>
          /\ auth.user = last.pre.auth.user
          /\ auth.accessToken = last.pre.auth.accessToken
          /\ localStorage["ACCESS_TOKEN"] = last.pre.ls["ACCESS_TOKEN"]
    /\ (/\ last.step = "settled"
        /\ last.call.op \in {"login", "register"}
        /\ Failed(last.resp)
        /\ ~ AuthClass(last.resp)) =>
          /\ auth.status = ERROR
          /\ auth.error.type \in {INVALID_CREDENTIALS, NETWORK_ERROR}
          /\ auth.error.message # NULL
          /\ auth.user = last.pre.auth.user
          /\ auth.accessToken = last.pre.auth.accessToken
          /\ localStorage["ACCESS_TOKEN"] = last.pre.ls["ACCESS_TOKEN"]
          /\ last.pre.ls["ACCESS_TOKEN"] # NULL =>
                authLink(localStorage) = Bearer(last.pre.ls["ACCESS_TOKEN"])

\* A login that fails while an authenticated user's session is in place.
C5_Witness ==
    /\ Settled("login")
    /\ Failed(last.resp)
    /\ ~ AuthClass(last.resp)
    /\ last.pre.auth.user \in Users
    /\ last.pre.auth.accessToken \in Tokens
    /\ last.pre.ls["ACCESS_TOKEN"] \in Tokens
    /\ auth.status = ERROR

\* C6: initializeAuth run with an empty access slot ends with status
\* UNAUTHENTICATED, sends no remote call and leaves the storage as it was.
C6_InitializeWithoutToken ==
    (last.step = "initializeAuth" /\ last.pre.ls["ACCESS_TOKEN"] = NULL) =>
        /\ auth.status = UNAUTHENTICATED
        /\ last.call = NoCall
        /\ calls = last.pre.calls
        /\ inflight = last.pre.inflight
        /\ localStorage = last.pre.ls

\* The first initializeAuth of a page load that finds no token.
C6_Witness ==
    /\ last.step = "initializeAuth"
    /\ last.pre.ls["ACCESS_TOKEN"] = NULL
    /\ last.pre.auth.status = IDLE
    /\ initRuns = 1

\* C7: when the fetchCurrentUser call of initializeAuth fails for any reason
\* (transport or parse failure, authorization error, any other error), all
\* storage slots are cleared, user and tokens are null and status is
\* UNAUTHENTICATED.
C7_InitializeFailsClosed ==
    (Settled("me") /\ Failed(last.resp)) =>
        /\ StorageCleared
        /\ SessionCleared
        /\ auth.status = UNAUTHENTICATED

\* fetchCurrentUser fails with an error that is not an authorization error
\* while the token and the user-data slot are stored.
C7_Witness ==
    /\ Settled("me")
    /\ Failed(last.resp)
    /\ ~ AuthClass(last.resp)
    /\ last.pre.ls["ACCESS_TOKEN"] \in Tokens
    /\ last.pre.ls["USER_DATA"] # NULL
    /\ last.pre.auth.accessToken \in Tokens

\* C8: initializeAuth run with a stored token T loads T into the slice and
\* sends fetchCurrentUser carrying T, without touching the storage; when that
\* call succeeds, user is the returned user (the owner of T), status is
\* AUTHENTICATED, and the completion changes neither the storage nor the
\* slice's token, so T, held by both before the completion, is held after it.
C8_InitializeWithToken ==
    /\ (last.step = "initializeAuth" /\ last.pre.ls["ACCESS_TOKEN"] # NULL) =>
          /\ auth.accessToken = last.pre.ls["ACCESS_TOKEN"]
          /\ localStorage = last.pre.ls
          /\ last.call.op = "me"
          /\ last.call.hdr = Bearer(last.pre.ls["ACCESS_TOKEN"])
          /\ calls = last.pre.calls + 1
    /\ (Settled("me") /\ last.resp.kind = "data") =>
          /\ auth.user = last.resp.user
          /\ \E t \in Tokens : last.call.hdr = Bearer(t) /\ last.resp.user = Owner(t)
          /\ auth.status = AUTHENTICATED
          /\ localStorage = last.pre.ls
          /\ auth.accessToken = last.pre.auth.accessToken
          /\ \A t \in Tokens :
                (/\ last.call.hdr = Bearer(t)
                 /\ last.pre.ls["ACCESS_TOKEN"] = t
                 /\ last.pre.auth.accessToken = t) =>
                    localStorage["ACCESS_TOKEN"] = t /\ auth.accessToken = t

\* fetchCurrentUser succeeds for the token initializeAuth loaded.
C8_Witness ==
    /\ Settled("me")
    /\ last.resp.kind = "data"
    /\ last.pre.auth.user = NULL
    /\ auth.user \in Users
    /\ auth.accessToken \in Tokens
    /\ last.call.hdr = Bearer(auth.accessToken)
    /\ localStorage["ACCESS_TOKEN"] = auth.accessToken

C12_NonAuthFailurePassesThrough ==
    (last.step = "settled" /\ Failed(last.resp) /\ ~AuthClass(last.resp)) =>
        LET w == World(last.pre.ls, last.pre.auth) IN
        /\ errorLink(w, last.resp) = w
        /\ last.call.op \in SecondaryFlows =>
              localStorage = last.pre.ls /\ auth = last.pre.auth
        /\ last.call.op \in {"login", "register"} =>
              /\ localStorage = last.pre.ls
              /\ \E t \in {INVALID_CREDENTIALS, NETWORK_ERROR} :
                    \E d \in {"Login failed", "Registration failed"} :
                        auth = setError(last.pre.auth, t, MessageOr(last.resp.message, d))

\* A secondary flow that failed at network level while a session with a
\* stored token was signed in.
C12_Witness ==
    /\ last.step = "settled"
    /\ last.call.op \in SecondaryFlows
    /\ last.resp.kind = "networkError"
    /\ last.pre.auth.status = AUTHENTICATED
    /\ last.pre.ls["ACCESS_TOKEN"] # NULL

\* C13: when the login call fails at transport level, loginUser ends with
\* status ERROR and error type NETWORK_ERROR, and the storage is what it was
\* before the failure was handled.
C13_LoginTransportFailure ==
    (Settled("login") /\ last.resp.kind = "networkError") =>
        /\ auth.status = ERROR
        /\ auth.error.type = NETWORK_ERROR
        /\ localStorage = last.pre.ls

\* A login that failed at transport level on top of a stored token.
C13_Witness ==
    /\ Settled("login")
    /\ last.resp.kind = "networkError"
    /\ last.pre.ls["ACCESS_TOKEN"] # NULL
    /\ auth.user # NULL

\* C14: after saveTokens(a, r) the access and refresh slots read back exactly
\* a and r, whatever they held before; after clearTokens each of the three
\* slots reads null.
C14_TokenStoreRoundTrip ==
    /\ last.step = "saveTokens" =>
          /\ getAccessToken(localStorage) = last.args.accessToken
          /\ getRefreshToken(localStorage) = last.args.refreshToken
    /\ last.step = "clearTokens" =>
          \A k \in StorageKey : localStorage[k] = NULL

\* saveTokens with a non-empty refresh token over a storage whose two token
\* slots held other values.
C14_Witness ==
    /\ last.step = "saveTokens"
    /\ last.args.refreshToken = "tb"
    /\ last.args.accessToken = "ta"
    /\ last.pre.ls["ACCESS_TOKEN"] = "tb"
    /\ last.pre.ls["REFRESH_TOKEN"] = "ta"

\* The expiry claim of a token, in seconds, as a set: the numbers n for which
\* the token's second segment decodes to a JSON object whose exp is n.
NumericExpiry(token) ==
    {n \in ExpSeconds :
        \E rest \in {<<>>, <<Dot, Signature>>} :
            token = <<Header, Dot, Encoded(Json(JsObject(Num(n))))>> \o rest}

\* C15 as stated: isTokenExpired never throws; for a token with a numeric
\* expiry claim it is true exactly when that time is not after now, and for
\* every other input it is true.
C15_Original ==
    last.step = "isTokenExpired" =>
        /\ last.result \in BOOLEAN
        /\ IF NumericExpiry(last.args.token) # {}
              THEN \A n \in NumericExpiry(last.args.token) :
                      last.result = (last.args.now >= n * MillisPerSecond)
              ELSE last.result = TRUE

\* C16: a Login submission with an empty email or password, and a Register
\* submission with an empty field or a password shorter than six characters,
\* sends no request and leaves the storage and the slice as they were.
C16_ValidationFailureIsInert ==
    LET failsValidation ==
            \/ /\ form.page = "login"
               /\ form.email = "" \/ form.password = <<>>
            \/ /\ form.page = "register"
               /\ \/ form.email = "" \/ form.password = <<>> \/ form.name = ""
                  \/ Len(form.password) < MinPasswordLength
    IN  failsValidation =>
            /\ last.call = NoCall
            /\ calls = last.pre.calls
            /\ inflight = last.pre.inflight
            /\ localStorage = last.pre.ls
            /\ auth = last.pre.auth

\* A registration with all fields filled in and a five-character password,
\* submitted while a session with a stored token is signed in.
C16_Witness ==
    /\ last.step = "registerSubmit"
    /\ form.page = "register"
    /\ form.email # "" /\ form.name # ""
    /\ Len(form.password) = 5
    /\ auth.status = AUTHENTICATED
    /\ localStorage["ACCESS_TOKEN"] # NULL

\* C17 as stated: starting a secondary flow and handling any outcome of its
\* call leave the storage and the slice as they were.
C17_Original ==
    (last.call.op \in SecondaryFlows) =>
        localStorage = last.pre.ls /\ auth = last.pre.auth

\* C17 as amended: starting a secondary flow leaves the storage and the slice
\* as they were, and so does handling its outcome unless the response carries
\* an UNAUTHENTICATED or FORBIDDEN error; then the error link has cleared the
\* storage and reset the slice, and the flow itself has added nothing.
C17_SecondaryFlowsKeepSession ==
    (last.call.op \in SecondaryFlows) =>
        IF last.step = "settled" /\ AuthClass(last.resp)
            THEN /\ localStorage = clearTokens(last.pre.ls)
                 /\ auth = clearAuth(last.pre.auth)
            ELSE /\ localStorage = last.pre.ls
                 /\ auth = last.pre.auth

\* A secondary flow rejected by the server with a code that is not
\* authentication-class, while a session with a stored token is signed in.
C17_Witness ==
    /\ last.step = "settled"
    /\ last.call.op \in SecondaryFlows
    /\ last.resp.kind = "graphQLErrors"
    /\ ~AuthClass(last.resp)
    /\ auth.status = AUTHENTICATED
    /\ localStorage["ACCESS_TOKEN"] # NULL

\* C18 as stated: whenever the storage holds no access token, ProtectedRoute
\* does not render its children.
C18_Original ==
    (getAccessToken(localStorage) = NULL) => ProtectedRoute(auth) # Children

\* C19 as stated: status is AUTHENTICATED exactly when a user is present and
\* no error is recorded, and selectIsAuthenticated is true in exactly those
\* states.
C19_Original ==
    /\ (auth.status = AUTHENTICATED) <=> (auth.user # NULL /\ auth.error = NoError)
    /\ selectIsAuthenticated(auth) <=> (auth.user # NULL /\ auth.error = NoError)

\* C20: once initializeAuth has run its synchronous part, the slice's
\* accessToken equals the ACCESS_TOKEN slot of the storage in every state.
C20_StoreAndSliceAgree ==
    (initRuns >= 1) => auth.accessToken = getAccessToken(localStorage)

\* The error link ends a session that had a token in both places while
\* another call is still in flight.
C20_Witness ==
    /\ last.step = "settled"
    /\ AuthClass(last.resp)
    /\ last.pre.ls["ACCESS_TOKEN"] # NULL
    /\ last.pre.auth.accessToken = last.pre.ls["ACCESS_TOKEN"]
    /\ inflight # EmptyBag
    /\ auth.accessToken = NULL

\* The four thunks that act on the session, by the call each awaits, and the
\* statuses an operation ends in.
SessionOps == {"login", "register", "logout", "me"}
Terminal == {AUTHENTICATED, UNAUTHENTICATED, ERROR}

\* C21 as stated: the slice starts as initialState; each of initializeAuth,
\* loginUser, registerUser and logoutUser that sends a call has set status
\* LOADING when the call leaves, and status is AUTHENTICATED, UNAUTHENTICATED
\* or ERROR when the operation has ended.
C21_Original ==
    /\ last.step = "start" => auth = initialState
    /\ (last.step \in {"initializeAuth", "loginUser", "registerUser", "logoutUser"}
            /\ last.call # NoCall) => auth.status = LOADING
    /\ (last.step = "initializeAuth" /\ last.call = NoCall) => auth.status \in Terminal
    /\ (last.step = "settled" /\ last.call.op \in SessionOps) => auth.status \in Terminal

\* C21 as amended: the slice starts as initialState; loginUser and
\* registerUser have set status LOADING when their call leaves, while
\* initializeAuth and logoutUser send theirs with status as it was; an
\* initializeAuth that sends nothing ends UNAUTHENTICATED, and when the call
\* of any of the four has been handled status is AUTHENTICATED,
\* UNAUTHENTICATED or ERROR.
C21_Lifecycle ==
    /\ last.step = "start" => auth = initialState
    /\ last.step \in {"loginUser", "registerUser"} =>
          last.call # NoCall /\ auth.status = LOADING
    /\ last.step \in {"initializeAuth", "logoutUser"} =>
          IF last.call # NoCall
              THEN auth.status = last.pre.auth.status
              ELSE auth.status = UNAUTHENTICATED
    /\ (last.step = "settled" /\ last.call.op \in SessionOps) => auth.status \in Terminal

\* loginUser started from a session whose last attempt had failed.
C21_Witness ==
    /\ last.step = "loginUser"
    /\ last.pre.auth.status = ERROR
    /\ auth.status = LOADING

\* C22 as stated: an error recorded by an earlier failure stays as it is
\* while status does not change, and is gone once a step has moved status to
\* LOADING, AUTHENTICATED or UNAUTHENTICATED.
C22_Original ==
    (last.step # "start" /\ last.pre.auth.error # NoError) =>
        /\ auth.status = last.pre.auth.status => auth.error = last.pre.auth.error
        /\ (auth.status # last.pre.auth.status
              /\ auth.status \in {LOADING, AUTHENTICATED, UNAUTHENTICATED}) =>
                  auth.error = NoError

\* C23: a successful login response is applied whole whatever completed
\* before it: once it has been handled, the slice's user and accessToken and
\* the stored access token are those of that response, and the token is the
\* one issued for that user.  Of two overlapping logins the one handled last
\* therefore decides the session.
C23_LastLoginWins ==
    (Settled("login") /\ last.resp.kind = "data") =>
        /\ auth.user = last.resp.user
        /\ auth.accessToken = last.resp.accessToken
        /\ getAccessToken(localStorage) = last.resp.accessToken
        /\ Owner(auth.accessToken) = auth.user

\* The second of two overlapping logins completes: its request left before
\* any token was stored, and by now the other account's login has completed
\* and signed that account in.
C23_Witness ==
    /\ Settled("login")
    /\ last.resp.kind = "data"
    /\ last.call.hdr = NoHeader
    /\ last.pre.auth.status = AUTHENTICATED
    /\ last.pre.auth.user \in Users \ {last.resp.user}
    /\ last.pre.ls["ACCESS_TOKEN"] = TokenOf(last.pre.auth.user)
    /\ auth.user = last.resp.user

\* C24: a login or register call that settles after a logoutUser has run to
\* its end, on a session that is signed out, still has its completion
\* applied: a successful login signs its user in and stores its token, a
\* failed login or register records an error with status ERROR.
C24_StaleCompletionRuns ==
    (/\ last.step = "settled"
     /\ last.call.op \in {"login", "register"}
     /\ loggedOut
     /\ last.pre.auth.status = UNAUTHENTICATED) =>
        IF Failed(last.resp)
            THEN auth.status = ERROR /\ auth.error # NoError
        ELSE IF last.call.op = "login"
            THEN /\ auth.status = AUTHENTICATED
                 /\ auth.user = last.resp.user
                 /\ getAccessToken(localStorage) = last.resp.accessToken
                 /\ Truthy(getAccessToken(localStorage))
            ELSE auth.status = UNAUTHENTICATED

\* A login sent before the logout's cleanup and answered with success after
\* it: login and logout are the only two calls made, the login had set status
\* LOADING, and the cleanup has since left the session signed out and the
\* storage empty.
C24_Witness ==
    /\ Settled("login")
    /\ last.resp.kind = "data"
    /\ loggedOut
    /\ calls = 2
    /\ last.pre.auth.status = UNAUTHENTICATED
    /\ last.pre.ls["ACCESS_TOKEN"] = NULL
    /\ auth.status = AUTHENTICATED
    /\ inflight = EmptyBag

\* C25: given that every remote call settles, the calls in flight all come to
\* an end; and in every state where initializeAuth has run and no call of
\* initializeAuth, loginUser, registerUser or logoutUser is in flight, status
\* is AUTHENTICATED, UNAUTHENTICATED or ERROR, never LOADING or IDLE.
C25_NeverStuck ==
    /\ []((initRuns >= 1 /\ \A c \in BagToSet(inflight) : c.op \notin SessionOps) =>
              auth.status \in Terminal)
    /\ (inflight # EmptyBag) ~> (inflight = EmptyBag)

\* Two logins overlapped; the first to complete signed its user in, the
\* second has now failed, and nothing is in flight any more.
C25_Witness ==
    /\ Settled("login")
    /\ Failed(last.resp)
    /\ last.call.hdr = NoHeader
    /\ last.pre.auth.status = AUTHENTICATED
    /\ last.pre.ls["ACCESS_TOKEN"] # NULL
    /\ inflight = EmptyBag
    /\ auth.status = ERROR

\* C26 as stated: whenever status is UNAUTHENTICATED the slice has no user
\* and no accessToken and the storage holds no access token.
C26_Original ==
    (auth.status = UNAUTHENTICATED) =>
        /\ auth.user = NULL
        /\ auth.accessToken = NULL
        /\ getAccessToken(localStorage) = NULL

\* C27 as stated: whenever the slice holds both a user and an accessToken,
\* the token is the one the server issued for that user.
C27_Original ==
    (auth.user # NULL /\ auth.accessToken # NULL) => Owner(auth.accessToken) = auth.user

\* C28: whenever status is AUTHENTICATED the slice holds a user.
C28_AuthenticatedHasUser ==
    (auth.status = AUTHENTICATED) => auth.user \in Users

\* status AUTHENTICATED set by a me query that completed after the session
\* had been cleared: the user is there although the token is gone.
C28_Witness ==
    /\ Settled("me")
    /\ last.pre.auth.status = UNAUTHENTICATED
    /\ last.pre.auth.user = NULL
    /\ auth.status = AUTHENTICATED
    /\ auth.accessToken = NULL

\* C29: whenever status is ERROR the slice holds an error, of type
\* INVALID_CREDENTIALS or NETWORK_ERROR.
C29_ErrorStatusHasError ==
    (auth.status = ERROR) =>
        /\ auth.error # NoError
        /\ auth.error.type \in {INVALID_CREDENTIALS, NETWORK_ERROR}

\* A login answered with an UNAUTHENTICATED or FORBIDDEN error on a session
\* that was signed in with no error: the error link clears the slice, the
\* thunk then records the failure.
C29_Witness ==
    /\ Settled("login")
    /\ AuthClass(last.resp)
    /\ last.pre.auth.user # NULL
    /\ last.pre.auth.error = NoError
    /\ auth.status = ERROR

\* C30: no step takes status back to IDLE, and while status is IDLE nothing
\* but setTokens has touched the slice: it holds no user and no error, and
\* ProtectedRoute shows the pending view.
C30_IdleOnlyInitially ==
    /\ (last.step # "start" /\ last.pre.auth.status # IDLE) => auth.status # IDLE
    /\ (auth.status = IDLE) =>
          /\ auth.user = NULL
          /\ auth.error = NoError
          /\ ProtectedRoute(auth) = Pending

\* A logout's cleanup on a session that a login had put into LOADING.
C30_Witness ==
    /\ Settled("logout")
    /\ last.pre.auth.status = LOADING
    /\ inflight # EmptyBag
    /\ auth.status = UNAUTHENTICATED

====
